---- MODULE Spec2Model ----
(***************************************************************************)
(* Wedding Invitation API (src/main.py): the comment endpoints             *)
(*   GET  /api/comments   list_comments                                    *)
(*   POST /api/comments   create_comment -> forward_to_google_sheet        *)
(* over the document store (database.create_document / get_documents) and  *)
(* the spreadsheet webhook.  Handlers are plain `def` routes, so the       *)
(* serving runtime runs them on worker threads; a handler is split here at *)
(* its blocking calls (store write, outbound POST), where another worker   *)
(* may run.                                                                *)
(***************************************************************************)
EXTENDS Integers, Sequences, FiniteSets, TLC

VARIABLES
    store,       \* the "comment" collection, in insertion order
    url,         \* os.getenv("GOOGLE_APPS_SCRIPT_URL")
    pc,          \* per worker: position in the handler it is running
    kind,        \* per worker: which endpoint the request is for
    body,        \* per worker: the POST request's JSON body
    limit,       \* per worker: the GET request's `limit` query parameter
    validated,   \* per worker: create_comment's local `validated`
    new_id,      \* per worker: create_comment's local `new_id`
    sheet_meta,  \* per worker: create_comment's local `sheet_meta`
    exc,         \* per worker: the exception `e` the handler's except clause caught
    response,    \* per worker: the HTTP response produced
    posts,       \* per worker: payloads this request POSTed to the webhook
    creates,     \* per worker: create_document calls made by this request
    nCreated     \* number of POST /api/comments answered with success so far

vars == <<store, url, pc, kind, body, limit, validated, new_id, sheet_meta,
          exc, response, posts, creates, nCreated>>

(***************************************************************************)
(* Bounds                                                                  *)
(***************************************************************************)
MaxStore == 2             \* documents the collection may hold
Workers == {"w1", "w2"}   \* worker threads serving requests

(***************************************************************************)
(* Values.  JSON / Python values are tagged so that values of different    *)
(* types are distinct: <<"str", s>>, <<"int", n>>, <<"bool", b>>,          *)
(* <<"none">> (JSON null / Python None); <<"absent">> is a key that is not *)
(* in the object at all.                                                   *)
(***************************************************************************)
Absent == <<"absent">>
PyNone == <<"none">>
JStr(s) == <<"str", s>>
JInt(n) == <<"int", n>>
JBool(b) == <<"bool", b>>
IsStr(v) == Len(v) = 2 /\ v[1] = "str"
IsInt(v) == Len(v) = 2 /\ v[1] = "int"
IsBool(v) == Len(v) = 2 /\ v[1] = "bool"

Min(a, b) == IF a <= b THEN a ELSE b

\* s[:n]
Truncate(s, n) == SubSeq(s, 1, Min(Len(s), n))

\* A text of n characters (webhook response bodies, transport error messages).
Text(n) == [i \in 1..n |-> "x"]

(***************************************************************************)
(* Transport schema: class CommentIn(BaseModel).  The route's parameter    *)
(* `comment: CommentIn` makes the framework build it from the JSON body    *)
(* before the handler runs.                                                *)
(***************************************************************************)
\* Optional[T] = default: an absent key takes the default, null stays None.
Opt(v, default) == IF v = Absent THEN default ELSE v

\* bug variant: name and message not required at the transport boundary
CommentInOkLax(b) ==
    /\ (b.attending \in {Absent, PyNone} \/ IsBool(b.attending))
    /\ (b.guests \in {Absent, PyNone} \/ IsInt(b.guests))
    /\ (b.phone \in {Absent, PyNone} \/ IsStr(b.phone))

\* name: str, message: str are required; the Optional fields accept null.
CommentInOk(b) ==
    /\ IsStr(b.name)
    /\ IsStr(b.message)
    /\ (b.attending \in {Absent, PyNone} \/ IsBool(b.attending))
    /\ (b.guests \in {Absent, PyNone} \/ IsInt(b.guests))
    /\ (b.phone \in {Absent, PyNone} \/ IsStr(b.phone))

\* bug variant: guests: Optional[int] = None
CommentInGuestsNone(b) ==
    [name      |-> b.name,
     message   |-> b.message,
     attending |-> Opt(b.attending, PyNone),
     guests    |-> Opt(b.guests, PyNone),
     phone     |-> Opt(b.phone, PyNone)]

\* CommentIn(**body).model_dump()
CommentIn(b) ==
    [name      |-> b.name,
     message   |-> b.message,
     attending |-> Opt(b.attending, PyNone),
     guests    |-> Opt(b.guests, JInt(1)),
     phone     |-> Opt(b.phone, PyNone)]

(***************************************************************************)
(* Domain schema: schemas.Comment (imported as CommentSchema).             *)
(***************************************************************************)
\* Inputs the domain schema rejects whatever its field constraints are.
CommentSchemaMustReject(d) == ~(IsStr(d.name) /\ IsStr(d.message))

\* Inputs the domain schema may reject: the data model calls name and
\* message non-empty, the schema's contract lists only missing / non-string.
CommentSchemaMayReject(d) ==
    \/ CommentSchemaMustReject(d)
    \/ d.name = JStr("")
    \/ d.message = JStr("")

\* CommentSchema(**d): the normalized record (defaults as in CommentIn).
CommentSchema(d) ==
    [name      |-> d.name,
     message   |-> d.message,
     attending |-> Opt(d.attending, PyNone),
     guests    |-> Opt(d.guests, JInt(1)),
     phone     |-> Opt(d.phone, PyNone)]

(***************************************************************************)
(* Document store: database.create_document / database.get_documents.      *)
(***************************************************************************)
Digit(k) == CASE k = 0 -> "0" [] k = 1 -> "1" [] k = 2 -> "2" [] k = 3 -> "3"
              [] k = 4 -> "4" [] k = 5 -> "5" [] k = 6 -> "6" [] k = 7 -> "7"
              [] k = 8 -> "8" [] k = 9 -> "9"

RECURSIVE Digits(_)
Digits(n) == IF n < 10 THEN <<Digit(n)>> ELSE Append(Digits(n \div 10), Digit(n % 10))

\* str(object id): the id's decimal digits, as a string value
StrId(oid) == JStr(Digits(oid))

RECURSIVE MaxId(_)
MaxId(docs) == IF docs = <<>> THEN 0
               ELSE LET m == MaxId(Tail(docs)) IN
                    IF Head(docs)._id > m THEN Head(docs)._id ELSE m

\* the id the store assigns to the next inserted document
FreshId(docs) == MaxId(docs) + 1

\* the document create_document("comment", record) inserts
Document(oid, rec) ==
    [_id |-> oid, name |-> rec.name, message |-> rec.message,
     attending |-> rec.attending, guests |-> rec.guests, phone |-> rec.phone]

\* the collection after create_document("comment", rec)
create_document(docs, rec) == Append(docs, Document(FreshId(docs), rec))

\* get_documents("comment", {}, limit): up to limit documents, store order
get_documents(docs, n) == SubSeq(docs, 1, Min(Len(docs), n))

(***************************************************************************)
(* HTTP responses: status, what the JSON body is, and the body.            *)
(***************************************************************************)
NoResponse == [status |-> 0, kind |-> "none", body |-> <<>>]

\* exceptions: the faults of the store calls and the domain schema's error
NoExc == [type |-> "none", msg |-> ""]
StoreFault == [type |-> "Exception", msg |-> "Database not available"]
ValidationError == [type |-> "ValidationError", msg |-> "1 validation error for Comment"]

\* str(e)
StrExc(e) == e.msg

HTTPException(code, detail) == [status |-> code, kind |-> "detail", body |-> detail]

\* the framework's answer to a body CommentIn does not accept: 422 and the
\* list of the offending fields
RequestValidationError(b) ==
    [status |-> 422, kind |-> "errors",
     body |-> (IF IsStr(b.name) THEN <<>> ELSE <<"name">>)
              \o (IF IsStr(b.message) THEN <<>> ELSE <<"message">>)]

\* a returned model, sent with the route's default status
Ok(what, value) == [status |-> 200, kind |-> what, body |-> value]

(***************************************************************************)
(* list_comments                                                           *)
(***************************************************************************)
DefaultLimit == 50

\* bug variant: the query parameter is ignored
LimitIgnored(q) == DefaultLimit

\* limit: int = 50
LimitOf(q) == Opt(q, JInt(DefaultLimit))[2]

\* d.get(key), d.get(key, default)
Get(d, key, default) == IF d[key] = Absent THEN default ELSE d[key]

\* CommentOut(id=str(d.get("_id")), name=d.get("name", ""), ...)
CommentOutOfDoc(d) ==
    [id        |-> StrId(d._id),
     name      |-> Get(d, "name", JStr("")),
     message   |-> Get(d, "message", JStr("")),
     attending |-> Get(d, "attending", PyNone),
     guests    |-> Get(d, "guests", PyNone),
     phone     |-> Get(d, "phone", PyNone)]

\* bug variant: results.insert(0, ...) instead of results.append(...)
ResultsReversed(docs) ==
    [i \in 1..Len(docs) |-> CommentOutOfDoc(docs[Len(docs) + 1 - i])]

\* the loop building `results`
Results(docs) == [i \in 1..Len(docs) |-> CommentOutOfDoc(docs[i])]

\* bug variant: the listing's fault reported as the creation's is
ListFaultAsClientFault(e) == HTTPException(400, StrExc(e))

\* except Exception as e: raise HTTPException(status_code=500, detail=str(e))
ListFault(e) == HTTPException(500, StrExc(e))

(***************************************************************************)
(* forward_to_google_sheet                                                 *)
(***************************************************************************)
ReasonLimit == 200
NoMeta == [forwarded |-> FALSE, status |-> Absent, response |-> Absent, reason |-> Absent]

\* `if not url`: unset and empty both count as not configured
NotConfigured(u) == u = PyNone \/ u = JStr("")

NoUrlMeta ==
    [forwarded |-> FALSE, status |-> Absent, response |-> Absent,
     reason |-> JStr("No GOOGLE_APPS_SCRIPT_URL configured")]

\* bug variant: ok = resp.ok
StatusOkAny2xx(code) == code \in 200..299

\* ok = resp.status_code in (200, 201)
StatusOk(code) == code \in {200, 201}

\* {"forwarded": ok, "status": resp.status_code, "response": resp.text[:200]}
ResponseMeta(code, text) ==
    [forwarded |-> StatusOk(code), status |-> JInt(code),
     response |-> JStr(Truncate(text, ReasonLimit)), reason |-> Absent]

\* except Exception as e: {"forwarded": False, "reason": str(e)[:200]}
FaultMeta(msg) ==
    [forwarded |-> FALSE, status |-> Absent, response |-> Absent,
     reason |-> JStr(Truncate(msg, ReasonLimit))]

(***************************************************************************)
(* create_comment                                                          *)
(***************************************************************************)
\* the fields of a comment
Fields == {"name", "message", "attending", "guests", "phone"}

NoRecord == [name |-> Absent, message |-> Absent, attending |-> Absent,
             guests |-> Absent, phone |-> Absent]

\* bug variant: the payload built without the phone
PayloadNoPhone(v) ==
    [name |-> v.name, message |-> v.message, attending |-> v.attending,
     guests |-> v.guests, phone |-> PyNone]

\* the dict handed to forward_to_google_sheet
Payload(v) ==
    [name |-> v.name, message |-> v.message, attending |-> v.attending,
     guests |-> v.guests, phone |-> v.phone]

\* CommentOut(id=new_id, **validated.model_dump())
CommentOut(id, v) ==
    [id |-> id, name |-> v.name, message |-> v.message,
     attending |-> v.attending, guests |-> v.guests, phone |-> v.phone]

\* except Exception as e: raise HTTPException(status_code=400, detail=str(e))
CreateFault(e) == HTTPException(400, StrExc(e))

(***************************************************************************)
(* Inputs                                                                  *)
(***************************************************************************)
NoBody == NoRecord

Alice == [name |-> JStr("Alice"), message |-> JStr("See you there!"),
          attending |-> JBool(TRUE), guests |-> JInt(2), phone |-> Absent]
Bob == [name |-> JStr("Bob"), message |-> JStr("Hi"),
        attending |-> Absent, guests |-> Absent, phone |-> Absent]
Nulls == [name |-> JStr("Bob"), message |-> JStr("Hi"),
          attending |-> PyNone, guests |-> PyNone, phone |-> JStr("555")]
NoName == [name |-> Absent, message |-> JStr("no name"),
           attending |-> Absent, guests |-> Absent, phone |-> Absent]
NoMessage == [name |-> JStr("Carol"), message |-> Absent,
              attending |-> JBool(FALSE), guests |-> Absent, phone |-> Absent]
BadName == [name |-> JInt(7), message |-> JStr("Hi"),
            attending |-> Absent, guests |-> Absent, phone |-> Absent]
EmptyName == [name |-> JStr(""), message |-> JStr("Hi"),
              attending |-> Absent, guests |-> Absent, phone |-> Absent]

Bodies == {Alice, Bob, Nulls, NoName, NoMessage, BadName, EmptyName}

\* ?limit=N values (positive, as the endpoint's contract has them); Absent
\* is a request without the parameter
Limits == {Absent, JInt(1), JInt(2)}

\* GOOGLE_APPS_SCRIPT_URL: unset, set but empty, set
Urls == {PyNone, JStr(""), JStr("https://script.example/exec")}

\* what the webhook may answer: <<status, text>>
Answers == {<<200, Text(2)>>, <<201, Text(201)>>, <<204, Text(0)>>, <<500, Text(3)>>}

\* messages of the transport faults requests.post may raise (timeout, DNS,
\* connection refused)
Faults == {Text(7), Text(201)}

\* a document written before this process started, without a name
LegacyDoc == [_id |-> 1, name |-> Absent, message |-> JStr("old"),
              attending |-> Absent, guests |-> Absent, phone |-> Absent]

(***************************************************************************)
(* State machine                                                           *)
(***************************************************************************)
Init ==
    /\ store \in {<<>>, <<LegacyDoc>>}
    /\ url \in Urls
    /\ pc = [w \in Workers |-> "idle"]
    /\ kind = [w \in Workers |-> "none"]
    /\ body = [w \in Workers |-> NoBody]
    /\ limit = [w \in Workers |-> Absent]
    /\ validated = [w \in Workers |-> NoRecord]
    /\ new_id = [w \in Workers |-> Absent]
    /\ sheet_meta = [w \in Workers |-> NoMeta]
    /\ exc = [w \in Workers |-> NoExc]
    /\ response = [w \in Workers |-> NoResponse]
    /\ posts = [w \in Workers |-> <<>>]
    /\ creates = [w \in Workers |-> 0]
    /\ nCreated = 0

\* GET /api/comments: the whole handler (one store read, then the mapping).
list_comments(w) ==
    /\ pc[w] = "idle"
    /\ \E q \in Limits :
         /\ limit' = [limit EXCEPT ![w] = q]
         /\ \/ /\ response' = [response EXCEPT ![w] =
                      Ok("list", Results(get_documents(store, LimitOf(q))))]
               /\ UNCHANGED exc
            \/ /\ exc' = [exc EXCEPT ![w] = StoreFault]
               /\ response' = [response EXCEPT ![w] = ListFault(StoreFault)]
    /\ kind' = [kind EXCEPT ![w] = "list"]
    /\ pc' = [pc EXCEPT ![w] = "done"]
    /\ UNCHANGED <<store, url, body, validated, new_id, sheet_meta, posts, creates, nCreated>>

\* POST /api/comments, up to the store call: the framework builds CommentIn
\* from the body (or answers 422 itself), then the handler builds
\* CommentSchema from its dump (or answers 400).
Receive(w) ==
    /\ pc[w] = "idle"
    /\ kind' = [kind EXCEPT ![w] = "create"]
    /\ \E b \in Bodies :
         /\ body' = [body EXCEPT ![w] = b]
         /\ IF ~CommentInOk(b)
            THEN /\ response' = [response EXCEPT ![w] = RequestValidationError(b)]
                 /\ pc' = [pc EXCEPT ![w] = "done"]
                 /\ UNCHANGED <<validated, exc>>
            ELSE \/ /\ ~CommentSchemaMustReject(CommentIn(b))
                    /\ validated' = [validated EXCEPT ![w] = CommentSchema(CommentIn(b))]
                    /\ pc' = [pc EXCEPT ![w] = "persist"]
                    /\ UNCHANGED <<response, exc>>
                 \/ /\ CommentSchemaMayReject(CommentIn(b))
                    /\ exc' = [exc EXCEPT ![w] = ValidationError]
                    /\ response' = [response EXCEPT ![w] = CreateFault(ValidationError)]
                    /\ pc' = [pc EXCEPT ![w] = "done"]
                    /\ UNCHANGED validated
    /\ UNCHANGED <<store, url, limit, new_id, sheet_meta, posts, creates, nCreated>>

\* bug variant: a record already stored is not stored again; its id is reused
PersistDedup(w) ==
    /\ pc[w] = "persist"
    /\ creates' = [creates EXCEPT ![w] = @ + 1]
    /\ \/ /\ \E i \in 1..Len(store) : [f \in Fields |-> store[i][f]] = validated[w]
          /\ LET i == CHOOSE i \in 1..Len(store) : [f \in Fields |-> store[i][f]] = validated[w]
             IN new_id' = [new_id EXCEPT ![w] = StrId(store[i]._id)]
          /\ pc' = [pc EXCEPT ![w] = "forward"]
          /\ UNCHANGED <<store, response, exc>>
       \/ /\ \A i \in 1..Len(store) : [f \in Fields |-> store[i][f]] # validated[w]
          /\ Len(store) < MaxStore
          /\ store' = create_document(store, validated[w])
          /\ new_id' = [new_id EXCEPT ![w] = StrId(FreshId(store))]
          /\ pc' = [pc EXCEPT ![w] = "forward"]
          /\ UNCHANGED <<response, exc>>
       \/ /\ exc' = [exc EXCEPT ![w] = StoreFault]
          /\ response' = [response EXCEPT ![w] = CreateFault(StoreFault)]
          /\ pc' = [pc EXCEPT ![w] = "done"]
          /\ UNCHANGED <<store, new_id>>
    /\ UNCHANGED <<url, kind, body, limit, validated, sheet_meta, posts, nCreated>>

\* bug variant: a comment of the same name is overwritten in place
PersistUpsert(w) ==
    /\ pc[w] = "persist"
    /\ creates' = [creates EXCEPT ![w] = @ + 1]
    /\ \/ /\ \E i \in 1..Len(store) : store[i].name = validated[w].name
          /\ LET i == CHOOSE i \in 1..Len(store) : store[i].name = validated[w].name
             IN /\ store' = [store EXCEPT ![i] = Document(store[i]._id, validated[w])]
                /\ new_id' = [new_id EXCEPT ![w] = StrId(store[i]._id)]
          /\ pc' = [pc EXCEPT ![w] = "forward"]
          /\ UNCHANGED <<response, exc>>
       \/ /\ \A i \in 1..Len(store) : store[i].name # validated[w].name
          /\ Len(store) < MaxStore
          /\ store' = create_document(store, validated[w])
          /\ new_id' = [new_id EXCEPT ![w] = StrId(FreshId(store))]
          /\ pc' = [pc EXCEPT ![w] = "forward"]
          /\ UNCHANGED <<response, exc>>
       \/ /\ exc' = [exc EXCEPT ![w] = StoreFault]
          /\ response' = [response EXCEPT ![w] = CreateFault(StoreFault)]
          /\ pc' = [pc EXCEPT ![w] = "done"]
          /\ UNCHANGED <<store, new_id>>
    /\ UNCHANGED <<url, kind, body, limit, validated, sheet_meta, posts, nCreated>>

\* new_id = create_document("comment", validated), or the store's fault
\* caught by `except Exception`.
Persist(w) ==
    /\ pc[w] = "persist"
    /\ creates' = [creates EXCEPT ![w] = @ + 1]
    /\ \/ /\ Len(store) < MaxStore
          /\ store' = create_document(store, validated[w])
          /\ new_id' = [new_id EXCEPT ![w] = StrId(FreshId(store))]
          /\ pc' = [pc EXCEPT ![w] = "forward"]
          /\ UNCHANGED <<response, exc>>
       \/ /\ exc' = [exc EXCEPT ![w] = StoreFault]
          /\ response' = [response EXCEPT ![w] = CreateFault(StoreFault)]
          /\ pc' = [pc EXCEPT ![w] = "done"]
          /\ UNCHANGED <<store, new_id>>
    /\ UNCHANGED <<url, kind, body, limit, validated, sheet_meta, posts, nCreated>>

\* sheet_meta = forward_to_google_sheet({...})
forward_to_google_sheet(w) ==
    /\ pc[w] = "forward"
    /\ IF NotConfigured(url)
       THEN /\ sheet_meta' = [sheet_meta EXCEPT ![w] = NoUrlMeta]
            /\ UNCHANGED posts
       ELSE /\ posts' = [posts EXCEPT ![w] = Append(@, Payload(validated[w]))]
            /\ \/ \E a \in Answers :
                    sheet_meta' = [sheet_meta EXCEPT ![w] = ResponseMeta(a[1], a[2])]
               \/ \E f \in Faults :
                    sheet_meta' = [sheet_meta EXCEPT ![w] = FaultMeta(f)]
    /\ pc' = [pc EXCEPT ![w] = "respond"]
    /\ UNCHANGED <<store, url, kind, body, limit, validated, new_id, exc, response, creates, nCreated>>

\* bug variant: a failed forward fails the request
RespondUnlessForwardFailed(w) ==
    /\ pc[w] = "respond"
    /\ IF sheet_meta[w].forwarded \/ sheet_meta[w] = NoUrlMeta
       THEN /\ response' = [response EXCEPT ![w] =
                    Ok("comment", CommentOut(new_id[w], validated[w]))]
            /\ nCreated' = nCreated + 1
       ELSE /\ response' = [response EXCEPT ![w] = HTTPException(502, "forward failed")]
            /\ UNCHANGED nCreated
    /\ pc' = [pc EXCEPT ![w] = "done"]
    /\ UNCHANGED <<store, url, kind, body, limit, validated, new_id, sheet_meta, exc, posts, creates>>

\* return CommentOut(id=new_id, **validated.model_dump())
Respond(w) ==
    /\ pc[w] = "respond"
    /\ response' = [response EXCEPT ![w] = Ok("comment", CommentOut(new_id[w], validated[w]))]
    /\ nCreated' = nCreated + 1
    /\ pc' = [pc EXCEPT ![w] = "done"]
    /\ UNCHANGED <<store, url, kind, body, limit, validated, new_id, sheet_meta, exc, posts, creates>>

\* the response has gone out; the worker is free for the next request
Finish(w) ==
    /\ pc[w] = "done"
    /\ pc' = [pc EXCEPT ![w] = "idle"]
    /\ kind' = [kind EXCEPT ![w] = "none"]
    /\ body' = [body EXCEPT ![w] = NoBody]
    /\ limit' = [limit EXCEPT ![w] = Absent]
    /\ validated' = [validated EXCEPT ![w] = NoRecord]
    /\ new_id' = [new_id EXCEPT ![w] = Absent]
    /\ sheet_meta' = [sheet_meta EXCEPT ![w] = NoMeta]
    /\ exc' = [exc EXCEPT ![w] = NoExc]
    /\ response' = [response EXCEPT ![w] = NoResponse]
    /\ posts' = [posts EXCEPT ![w] = <<>>]
    /\ creates' = [creates EXCEPT ![w] = 0]
    /\ UNCHANGED <<store, url, nCreated>>

Next ==
    \E w \in Workers :
        \/ list_comments(w)
        \/ Receive(w)
        \/ Persist(w)
        \/ forward_to_google_sheet(w)
        \/ Respond(w)
        \/ Finish(w)

Spec == Init /\ [][Next]_vars

(***************************************************************************)
(* Properties                                                              *)
(***************************************************************************)
\* a POST request that has been answered
Answered(w) == pc[w] = "done" /\ kind[w] = "create"

\* a valid Comment input: non-empty name, non-empty message, optional
\* fields of their types
ValidInput(b) ==
    /\ IsStr(b.name) /\ b.name # JStr("")
    /\ IsStr(b.message) /\ b.message # JStr("")
    /\ (b.attending \in {Absent, PyNone} \/ IsBool(b.attending))
    /\ (b.guests \in {Absent, PyNone} \/ IsInt(b.guests))
    /\ (b.phone \in {Absent, PyNone} \/ IsStr(b.phone))

\* name or message is missing from the body
MissingRequired(b) == b.name = Absent \/ b.message = Absent

StoreIds == {StrId(store[i]._id) : i \in 1..Len(store)}

\* C1: a POST with a valid input is never rejected by validation, and once
\* the store's create operation has returned, the answer is 200 with the
\* non-empty id create_document returned (the id of a stored document) and
\* the submitted fields, guests 1 when omitted, attending and phone None
\* when omitted.  (The only other answer is the store fault's 400 of C8.)
C1_ValidCreateEchoes ==
    \A w \in Workers :
        (Answered(w) /\ ValidInput(body[w])) =>
            /\ exc[w].type # "ValidationError"
            /\ response[w].status # 422
            /\ (exc[w] = NoExc =>
                  /\ response[w].status = 200
                  /\ response[w].kind = "comment"
                  /\ IsStr(response[w].body.id)
                  /\ Len(response[w].body.id[2]) > 0
                  /\ response[w].body.id = new_id[w]
                  /\ response[w].body.id \in StoreIds
                  /\ response[w].body.name = body[w].name
                  /\ response[w].body.message = body[w].message
                  /\ response[w].body.attending =
                        (IF body[w].attending = Absent THEN PyNone ELSE body[w].attending)
                  /\ response[w].body.guests =
                        (IF body[w].guests = Absent THEN JInt(1) ELSE body[w].guests)
                  /\ response[w].body.phone =
                        (IF body[w].phone = Absent THEN PyNone ELSE body[w].phone))

\* C1 witness: a body with every optional field omitted was answered 200
C1_Witness ==
    \E w \in Workers :
        /\ Answered(w) /\ body[w] = Bob
        /\ response[w].status = 200
        /\ response[w].body.guests = JInt(1)

\* the forward has been attempted and its outcome is known
ForwardSucceeded(w) == sheet_meta[w].forwarded
ForwardFailed(w) == ~sheet_meta[w].forwarded /\ sheet_meta[w] # NoMeta /\ sheet_meta[w] # NoUrlMeta
ForwardSkipped(w) == sheet_meta[w] = NoUrlMeta

\* C2: for a submission that validated and persisted, the answer is 200 with
\* the created comment (its id and the normalized fields), whatever the
\* forward did; two such submissions of the same record get the same answer
\* up to the id even when their forwards ended differently.
C2_ForwardNeverAffectsResponse ==
    /\ \A w \in Workers :
          (Answered(w) /\ new_id[w] # Absent) =>
              /\ ForwardSucceeded(w) \/ ForwardFailed(w) \/ ForwardSkipped(w)
              /\ response[w].status = 200
              /\ response[w].kind = "comment"
              /\ response[w].body.id = new_id[w]
              /\ [f \in Fields |-> response[w].body[f]] = [f \in Fields |-> validated[w][f]]
    /\ \A w1, w2 \in Workers :
          (/\ Answered(w1) /\ new_id[w1] # Absent
           /\ Answered(w2) /\ new_id[w2] # Absent
           /\ validated[w1] = validated[w2]) =>
              /\ response[w1].status = response[w2].status
              /\ [f \in Fields |-> response[w1].body[f]] = [f \in Fields |-> response[w2].body[f]]

\* C2 witness: the same record submitted twice, one forward succeeded and
\* the other failed, both answered
C2_Witness ==
    \E w1, w2 \in Workers :
        /\ Answered(w1) /\ Answered(w2)
        /\ body[w1] = Alice /\ body[w2] = Alice
        /\ ForwardSucceeded(w1) /\ ForwardFailed(w2)
        /\ sheet_meta[w2].reason # Absent
        /\ response[w1].status = 200 /\ response[w2].status = 200

ListStep(w) == pc[w] = "idle" /\ kind'[w] = "list"

\* the listing w produced in this step is a success
Listed(w) == ListStep(w) /\ response'[w].status = 200 /\ response'[w].kind = "list"

\* the limit in force for the request w takes in this step
LimitInForce(w) == IF limit'[w] = Absent THEN 50 ELSE limit'[w][2]

\* every listed comment has a populated id, and the i-th listed comment is
\* the i-th document of the collection
ListedInStoreOrder(w) ==
    \A i \in 1..Len(response'[w].body) :
        /\ i <= Len(store)
        /\ IsStr(response'[w].body[i].id)
        /\ Len(response'[w].body[i].id[2]) > 0
        /\ response'[w].body[i].id = StrId(store[i]._id)
        /\ response'[w].body[i].message = store[i].message

\* C4 as stated: a listing made after N successful creations returns at
\* least N comments, each with a populated id, in insertion order.
C4_ListsAtLeastN ==
    [][\A w \in Workers :
          Listed(w) =>
              /\ Len(response'[w].body) >= nCreated
              /\ ListedInStoreOrder(w)]_vars

\* C4 amended: a listing made after N successful creations returns at least
\* min(N, limit) comments (limit is 50 when omitted), each with a populated
\* id, in insertion order.
C4_ListsAtLeastMinNLimit ==
    [][\A w \in Workers :
          Listed(w) =>
              /\ Len(response'[w].body) >= Min(nCreated, LimitInForce(w))
              /\ ListedInStoreOrder(w)]_vars

\* C4 witness: after two successful creations a listing without limit
\* returned two comments, in insertion order
C4_Witness ==
    \E w \in Workers :
        /\ pc[w] = "done" /\ kind[w] = "list" /\ limit[w] = Absent
        /\ nCreated = 2
        /\ response[w].status = 200
        /\ Len(response[w].body) = 2
        /\ response[w].body[1].id = StrId(store[1]._id)
        /\ response[w].body[2].id = StrId(store[2]._id)

\* C5: a listing is never refused for its limit; it returns exactly
\* min(limit, number of stored comments) comments, limit being 50 when
\* omitted: all of them when there are at most limit, exactly limit when
\* there are more.
C5_ListReturnsUpToLimit ==
    [][\A w \in Workers :
          ListStep(w) =>
              /\ response'[w].status \in {200, 500}
              /\ (Listed(w) =>
                    /\ Len(response'[w].body) = Min(LimitInForce(w), Len(store))
                    /\ Len(response'[w].body) <= LimitInForce(w)
                    /\ (Len(store) > LimitInForce(w) =>
                          Len(response'[w].body) = LimitInForce(w)))]_vars

\* C5 witness: limit=1 after two creations returned exactly one comment
C5_Witness ==
    \E w \in Workers :
        /\ pc[w] = "done" /\ kind[w] = "list" /\ limit[w] = JInt(1)
        /\ nCreated = 2 /\ Len(store) = 2
        /\ response[w].status = 200
        /\ Len(response[w].body) = 1

\* documents the collection held before the first request
Preexisting == IF store # <<>> /\ store[1] = LegacyDoc THEN 1 ELSE 0

\* requests whose create_document call has returned and that are not
\* answered yet
InFlight == {w \in Workers : pc[w] \in {"forward", "respond"}}

Forwarded(w) == kind[w] = "create" /\ pc[w] \in {"respond", "done"} /\ new_id[w] # Absent

\* C7: once the forwarder has returned: without a URL it made no POST and
\* reports "not forwarded" with the no-URL reason; with a URL it made
\* exactly one POST, reports forwarded exactly when the status is 200 or
\* 201, and reports any other status or transport fault as a value; no
\* exception reaches the handler, which goes on to answer 200.  No request
\* ever makes more than one POST.
C7_OneAttemptNoFault ==
    \A w \in Workers :
        /\ Len(posts[w]) <= 1
        /\ Forwarded(w) =>
              /\ exc[w] = NoExc
              /\ (pc[w] = "done" => response[w].status = 200)
              /\ IF url = PyNone \/ url = JStr("")
                 THEN /\ posts[w] = <<>>
                      /\ ~sheet_meta[w].forwarded
                      /\ sheet_meta[w].reason = JStr("No GOOGLE_APPS_SCRIPT_URL configured")
                 ELSE /\ Len(posts[w]) = 1
                      /\ (sheet_meta[w].forwarded <=>
                             sheet_meta[w].status \in {JInt(200), JInt(201)})
                      /\ (sheet_meta[w].status = Absent <=> sheet_meta[w].reason # Absent)
                      /\ (sheet_meta[w].reason # Absent =>
                             Len(sheet_meta[w].reason[2]) <= 200)
                      /\ (sheet_meta[w].status # Absent =>
                             Len(sheet_meta[w].response[2]) <= 200)

\* C7 witness: with a URL configured the webhook answered 204; one POST,
\* reported as not forwarded, and the request was answered 200
C7_Witness ==
    \E w \in Workers :
        /\ Answered(w)
        /\ ~NotConfigured(url)
        /\ Len(posts[w]) = 1
        /\ sheet_meta[w].status = JInt(204)
        /\ ~sheet_meta[w].forwarded
        /\ response[w].status = 200

\* C8: a request whose store call or validation raised is answered in that
\* very step, with the store as it was: a listing with 500 and the error
\* text, a creation with 400 and the error text; every answered request
\* carries a response.
C8_FaultsBecomeResponses ==
    [][/\ \A w \in Workers :
             (exc'[w] # NoExc /\ exc[w] = NoExc) =>
                 /\ store' = store
                 /\ pc'[w] = "done"
                 /\ response'[w].kind = "detail"
                 /\ response'[w].body = exc'[w].msg
                 /\ response'[w].body # ""
                 /\ (kind'[w] = "list" => response'[w].status = 500)
                 /\ (kind'[w] = "create" => response'[w].status = 400)
       /\ \A w \in Workers :
             pc'[w] = "done" => response'[w].status \in {200, 400, 422, 500}]_vars

\* C8 witness: a store fault while listing and a store fault while creating,
\* both answered
C8_Witness ==
    \E w1, w2 \in Workers :
        /\ pc[w1] = "done" /\ kind[w1] = "list"
        /\ exc[w1] = StoreFault /\ response[w1].status = 500
        /\ Answered(w2) /\ creates[w2] = 1
        /\ exc[w2] = StoreFault /\ response[w2].status = 400

\* C9: in every step the collection keeps every document it had, unchanged
\* and in place (it only grows at the end), and a listing step leaves it as
\* it was.
C9_AppendOnly ==
    [][/\ Len(store') >= Len(store)
       /\ SubSeq(store', 1, Len(store)) = store
       /\ \A w \in Workers : ListStep(w) => store' = store]_vars

\* C9 witness: two documents were created and then listed; the first still
\* has the id and fields it was created with
C9_Witness ==
    \E w1, w2 \in Workers :
        /\ Len(store) = 2
        /\ Answered(w1) /\ response[w1].status = 200
        /\ store[1]._id = 1
        /\ new_id[w1] = StrId(1)
        /\ [f \in Fields |-> store[1][f]] = validated[w1]
        /\ pc[w2] = "done" /\ kind[w2] = "list"
        /\ response[w2].status = 200 /\ Len(response[w2].body) = 2

\* C10: the steps of one POST happen in the order validate, persist,
\* forward, respond: create_document is called only with a validated record
\* and at most once; a POST goes to the webhook only after create_document
\* returned this request's id, and carries the normalized record's name,
\* message, attending, guests and phone; a request whose validation or
\* persistence failed made no forward; a 200 is sent only after the forward
\* attempt has returned.
C10_ValidatePersistForwardRespond ==
    \A w \in Workers :
        /\ creates[w] <= 1
        /\ creates[w] = 1 => validated[w] # NoRecord
        /\ new_id[w] # Absent => creates[w] = 1
        /\ (posts[w] # <<>> \/ sheet_meta[w] # NoMeta) =>
              /\ new_id[w] # Absent
              /\ new_id[w] \in StoreIds
        /\ posts[w] # <<>> =>
              /\ DOMAIN posts[w][1] = Fields
              /\ posts[w][1].name = validated[w].name
              /\ posts[w][1].message = validated[w].message
              /\ posts[w][1].attending = validated[w].attending
              /\ posts[w][1].guests = validated[w].guests
              /\ posts[w][1].phone = validated[w].phone
        /\ (exc[w] # NoExc \/ response[w].status = 422) =>
              /\ posts[w] = <<>>
              /\ sheet_meta[w] = NoMeta
              /\ new_id[w] = Absent
        /\ (kind[w] = "create" /\ response[w].status = 200) =>
              /\ pc[w] = "done"
              /\ sheet_meta[w] # NoMeta
              /\ new_id[w] # Absent

\* C10 witness: a request that went through all four steps, its record
\* stored, POSTed and answered
C10_Witness ==
    \E w \in Workers :
        /\ Answered(w) /\ body[w] = Nulls
        /\ creates[w] = 1
        /\ Len(posts[w]) = 1
        /\ posts[w][1].phone = JStr("555")
        /\ response[w].status = 200

====
